---- MODULE Spec2Model ----
(***************************************************************************)
(* State-machine model of the INA260-behind-TCA9548A monitor.  The         *)
(* repository holds four variants of one program:                          *)
(*   "main"        src/main.go            positional arguments, plain      *)
(*                                        gauges                           *)
(*   "labeled"     src/unnamed/part_001   positional arguments, labelled   *)
(*                                        gauge vectors                    *)
(*   "flags"       src/unnamed/part_000   flag arguments, initializeI2C /  *)
(*                                        getDevice helpers                *)
(*   "select_only" src/unnamed/part_003   channel selection only           *)
(* The main goroutine is modelled one step per library call that touches   *)
(* the bus, the gauges, the clock or the process; the metrics server is a  *)
(* second process.  Physical values are kept exact as integers in          *)
(* micro-units (uA, uV, uW).                                               *)
(***************************************************************************)
EXTENDS Integers, Sequences, FiniteSets, TLC

VARIABLES
    variant,          \* which program variant runs
    osArgs,           \* os.Args[1:], each argument a sequence of characters
    tcaAddressFlag,   \* -tca_address (flags variant)
    channelFlag,      \* -channel (flags variant)
    pc,               \* position of the main goroutine
    exit,             \* "running", "fatal" (os.Exit(1)), "panic", "return"
    fatalMsg,         \* which diagnostic ended the process ("" while running)
    bus,              \* "nil", "open", "closed"
    hostname,         \* os.Hostname() result ("" before it is read)
    tcaAddressStr,    \* address string handed to ParseUint
    channelStr,       \* channel string handed to Atoi
    tcaAddress,       \* uint16 multiplexer address
    ina260Channel,    \* byte channel index
    ina260,           \* "unset", "nil", "dev": the *i2c.Dev of the sensor
    selectErr,        \* error of the channel-selection step ("" = none)
    deviceLabel,      \* device label of the samples
    manufID, deviceID,
    warned,           \* identity warning printed
    rawCurrent, rawVoltage, rawPower,
    current, voltage, power,
    ina260Current, ina260Voltage, ina260Power,   \* the gauges
    http,             \* metrics goroutine: "off", "starting", "serving", "failed"
    scraped,          \* gauge values the last /metrics response carried
    setupTx,          \* bus transactions issued before the polling loop
    iterTx,           \* bus transactions of the polling iteration under way
    delays,           \* durations slept since the last bus transaction
    iterStart,        \* gauge values when the iteration under way began
    fails,            \* consecutive failed iterations (saturating)
    lag,              \* per gauge: successful iterations since its last write
    codecIn, codecOut \* codec harness: bytes in, decoded values out

vars == <<variant, osArgs, tcaAddressFlag, channelFlag, pc, exit, fatalMsg,
          bus, hostname, tcaAddressStr, channelStr, tcaAddress,
          ina260Channel, ina260, selectErr, deviceLabel, manufID, deviceID,
          warned, rawCurrent, rawVoltage, rawPower, current, voltage, power,
          ina260Current, ina260Voltage, ina260Power, http, scraped, setupTx,
          iterTx, delays, iterStart, fails, lag, codecIn, codecOut>>

----------------------------------------------------------------------------
(* Program constants *)

ina260Address == 64
ina260RegConfig == 0
ina260RegCurrent == 1
ina260RegBusVoltage == 2
ina260RegPower == 3
ina260RegManufID == 254
ina260RegDeviceID == 255

\* Scaling factors.  The source multiplies by the LSB in milli-units and
\* divides by 1000.0; here the published value is held in micro-units, so
\* raw * 1.25 / 1000.0 A is raw * 1250 uA and raw * 10.0 / 1000.0 W is
\* raw * 10000 uW.
voltageLSB == 1250
currentLSB == 1250
powerLSB == 10000

ExpectedManufID == 21577    \* 0x5449
ExpectedDeviceID == 8800    \* 0x2260
SleepSeconds == 1
MaxChannel == 7
AddrBits == 16
DefaultChannelFlag == 0

\* "no value yet" for a variable that holds a number
Unset == 0 - 1

\* Bounds of the model
MaxFails == 1
MaxLag == 2

----------------------------------------------------------------------------
(* Integer helpers *)

RECURSIVE Pow(_, _)
Pow(b, n) == IF n = 0 THEN 1 ELSE b * Pow(b, n - 1)

Byte(n) == n % 256

\* int16(x) of a uint16 x: two's-complement reinterpretation
Int16(x) == ((x + 32768) % 65536) - 32768

\* the two bytes taken in the wrong order
LittleEndianUint16(buf) == buf[2] * 256 + buf[1]

\* binary.BigEndian.Uint16(buf)
BigEndianUint16(buf) == buf[1] * 256 + buf[2]

----------------------------------------------------------------------------
(* strconv and fmt, on strings held as sequences of one-character strings. *)
(* Arguments are drawn from an alphabet without '_'.                       *)

DigitChars == <<"0","1","2","3","4","5","6","7","8","9">>
HexChars == <<"0","1","2","3","4","5","6","7","8","9","A","B","C","D","E","F">>

\* value of a digit character, 99 when it is none
DigitVal(c) ==
    CASE c = "0" -> 0 [] c = "1" -> 1 [] c = "2" -> 2 [] c = "3" -> 3
      [] c = "4" -> 4 [] c = "5" -> 5 [] c = "6" -> 6 [] c = "7" -> 7
      [] c = "8" -> 8 [] c = "9" -> 9
      [] c \in {"a", "A"} -> 10 [] c \in {"b", "B"} -> 11
      [] c \in {"c", "C"} -> 12 [] c \in {"d", "D"} -> 13
      [] c \in {"e", "E"} -> 14 [] c \in {"f", "F"} -> 15
      [] OTHER -> 99

\* the digit loop of ParseUint: acc is the number so far
RECURSIVE ParseDigits(_, _, _, _)
ParseDigits(s, base, maxVal, acc) ==
    IF s = <<>> THEN [err |-> "", val |-> acc]
    ELSE LET d == DigitVal(Head(s)) IN
         IF d >= base THEN [err |-> "syntax", val |-> 0]
         ELSE IF acc * base + d > maxVal THEN [err |-> "range", val |-> maxVal]
         ELSE ParseDigits(Tail(s), base, maxVal, acc * base + d)

\* strconv.ParseUint(s, 0, bitSize): base taken from the prefix
ParseUint(s, bitSize) ==
    LET maxVal == Pow(2, bitSize) - 1 IN
    IF s = <<>> THEN [err |-> "syntax", val |-> 0]
    ELSE IF Head(s) = "0"
      THEN IF Len(s) >= 3 /\ s[2] \in {"b", "B"}
             THEN ParseDigits(SubSeq(s, 3, Len(s)), 2, maxVal, 0)
           ELSE IF Len(s) >= 3 /\ s[2] \in {"o", "O"}
             THEN ParseDigits(SubSeq(s, 3, Len(s)), 8, maxVal, 0)
           ELSE IF Len(s) >= 3 /\ s[2] \in {"x", "X"}
             THEN ParseDigits(SubSeq(s, 3, Len(s)), 16, maxVal, 0)
           ELSE ParseDigits(Tail(s), 8, maxVal, 0)
      ELSE ParseDigits(s, 10, maxVal, 0)

\* strconv.Atoi(s): optional sign, then decimal digits.  This is its path for
\* short strings, on which no number is out of range.
Atoi(s) ==
    LET signed == s # <<>> /\ Head(s) \in {"+", "-"}
        body == IF signed THEN Tail(s) ELSE s
        r == ParseDigits(body, 10, Pow(10, Len(body)), 0)
    IN  IF body = <<>> THEN [err |-> "syntax", val |-> 0]
        ELSE IF r.err # "" THEN r
        ELSE IF signed /\ Head(s) = "-" THEN [err |-> "", val |-> 0 - r.val]
        ELSE r

\* digits of n >= 0 in the given base
RECURSIVE FormatUint(_, _)
FormatUint(n, base) ==
    IF n < base THEN <<HexChars[n + 1]>>
    ELSE Append(FormatUint(n \div base, base), HexChars[(n % base) + 1])

\* strconv.Itoa(n), also fmt's %d
Itoa(n) == IF n < 0 THEN <<"-">> \o FormatUint(0 - n, 10) ELSE FormatUint(n, 10)

\* the address formatted with %d where %X was meant
FormatHexAsDecimal(n) == FormatUint(n, 10)

\* fmt's %X of an unsigned value
FormatHex(n) == FormatUint(n, 16)

LabelHead == <<"t","c","a","9","5","4","8","a","_">>
LabelCh == <<"_","c","h">>
LabelTail == <<"_","i","n","a","2","6","0">>

\* part_001: fmt.Sprintf("tca9548a_0x%X_ch%d_ina260", tcaAddress, ina260Channel)
DeviceLabelNum(addr, ch) ==
    LabelHead \o <<"0", "x">> \o FormatHex(addr) \o LabelCh \o Itoa(ch) \o LabelTail

\* part_000: fmt.Sprintf("tca9548a_%s_ch%s_ina260", tcaAddressStr, channelStr)
DeviceLabelStr(addrStr, chStr) ==
    LabelHead \o addrStr \o LabelCh \o chStr \o LabelTail

----------------------------------------------------------------------------
(* Launches: the variant and its command line *)

DefaultAddrStr == <<"0","x","7","0">>
DefaultChannelStr == <<"0">>

AddrStrs == { DefaultAddrStr, <<"1","1","2">>, <<"0","x","1","F","F">>,
              <<"z","z">> }
GoodChannelStrs == { <<DigitChars[c + 1]>> : c \in 0..MaxChannel }
BadChannelStrs == { <<"8">>, <<"-","1">>, <<"2","5","5">>, <<"x">> }

\* os.Args[1:] of the positional variants
ArgVectors ==
    { <<>>, << <<"0","x","7","1">> >>, << <<"0","x","7","1">>, <<"3">>, <<"9">> >> }
    \cup { <<DefaultAddrStr, c>> : c \in GoodChannelStrs \cup BadChannelStrs }
    \cup { <<a, <<"3">> >> : a \in AddrStrs }

FlagChannels == {0, 3, MaxChannel, -1, 8, 255}

\* the labelled variant shares the argument handling of main.go line for line
LabeledArgVectors ==
    { <<>>, << <<"z","z">> >>, <<DefaultAddrStr, <<"3">> >>,
      << <<"1","1","2">>, <<"3">> >>, <<DefaultAddrStr, <<"8">> >>,
      << <<"z","z">>, <<"3">> >> }

Launches ==
    { [variant |-> "main", osArgs |-> a, tcaAddressFlag |-> DefaultAddrStr,
       channelFlag |-> DefaultChannelFlag] : a \in ArgVectors }
    \cup { [variant |-> "labeled", osArgs |-> a, tcaAddressFlag |-> DefaultAddrStr,
            channelFlag |-> DefaultChannelFlag] : a \in LabeledArgVectors }
    \cup { [variant |-> "flags", osArgs |-> <<>>, tcaAddressFlag |-> DefaultAddrStr,
            channelFlag |-> c] : c \in FlagChannels }
    \cup { [variant |-> "flags", osArgs |-> <<>>, tcaAddressFlag |-> a,
            channelFlag |-> 3] : a \in AddrStrs }
    \cup { [variant |-> "select_only", osArgs |-> <<>>,
            tcaAddressFlag |-> DefaultAddrStr, channelFlag |-> DefaultChannelFlag] }

----------------------------------------------------------------------------
(* The bus and the device behind it *)

\* one bus transaction: w written, rlen bytes asked for, r read back
Tx(addr, w, rlen, ok, r) == [addr |-> addr, w |-> w, rlen |-> rlen, ok |-> ok, r |-> r]

\* byte pairs the sensor may answer with, per register
RegReplies(reg) ==
    CASE reg = ina260RegManufID -> { <<84, 73>>, <<0, 0>> }
      [] reg = ina260RegDeviceID -> { <<34, 96>> }
      [] reg = ina260RegCurrent -> { <<0, 16>>, <<255, 255>> }
      [] reg = ina260RegBusVoltage -> { <<1, 144>>, <<128, 0>> }
      [] reg = ina260RegPower -> { <<0, 100>> }
      [] OTHER -> { <<0, 0>> }

\* readINA260Reg: the transactions dev.Tx(writeBuf, readBuf) can turn into
\* (writeBuf = {reg}, readBuf of 2 bytes), a failed one reading nothing
RegTxs(reg) ==
    { Tx(ina260Address, <<reg>>, 2, TRUE, r) : r \in RegReplies(reg) }
    \cup { Tx(ina260Address, <<reg>>, 2, FALSE, <<>>) }

\* readINA260Reg: the value returned for a transaction (0 with the error)
RegValue(tx) == IF tx.ok THEN BigEndianUint16(tx.r) ELSE 0

\* channelSelectionByte := byte(1 << ina260Channel)
\* the mask one bit too far to the left
ChannelSelectionByteShifted(ch) == IF ch + 1 >= 8 THEN 0 ELSE Byte(Pow(2, ch + 1))

\* (a byte shifted by 8 or more is 0)
ChannelSelectionByte(ch) == IF ch >= 8 THEN 0 ELSE Byte(Pow(2, ch))

\* tca.Tx([]byte{channelSelectionByte}, nil)
SelectTxs(addr, ch) ==
    { Tx(addr, <<ChannelSelectionByte(ch)>>, 0, ok, <<>>) : ok \in BOOLEAN }

\* dev.Tx([]byte{0}, nil): the probe of getDevice
ProbeTxs == { Tx(ina260Address, <<ina260RegConfig>>, 0, ok, <<>>) : ok \in BOOLEAN }

----------------------------------------------------------------------------
(* Conversions to physical units (micro-units) *)

\* the conversion without the signed reinterpretation
CurrentAmpsUnsigned(raw) == raw * currentLSB

\* current := float64(int16(rawCurrent)) * currentLSB / 1000.0
CurrentAmps(raw) == Int16(raw) * currentLSB

\* the conversion with a signed reinterpretation it must not have
VoltageVoltsSigned(raw) == Int16(raw) * voltageLSB

\* voltage := float64(rawVoltage) * voltageLSB / 1000.0
VoltageVolts(raw) == raw * voltageLSB

\* the power conversion with the LSB of another register
PowerWattsVoltageLSB(raw) == raw * voltageLSB

\* power := float64(rawPower) * powerLSB / 1000.0
PowerWatts(raw) == raw * powerLSB

----------------------------------------------------------------------------
(* Gauges: a function from label values to the value last set.  A plain    *)
(* Gauge has the one series <<>> from the start, at 0; a GaugeVec has no   *)
(* series until WithLabelValues creates one.                               *)

NewGauge == [l \in {<<>>} |-> 0]
NewGaugeVec == [l \in {} |-> 0]

GaugeSet(g, l, v) == [k \in (DOMAIN g) \cup {l} |-> IF k = l THEN v ELSE g[k]]

\* label values of the samples of this process
LabelValues == IF variant = "main" THEN <<>> ELSE <<hostname, deviceLabel>>

Gauges == <<ina260Current, ina260Voltage, ina260Power>>

----------------------------------------------------------------------------
(* Variable groups *)

inputs == <<variant, osArgs, tcaAddressFlag, channelFlag>>
config == <<tcaAddressStr, channelStr, tcaAddress, ina260Channel>>
ident == <<manufID, deviceID, warned>>
locals == <<rawCurrent, rawVoltage, rawPower, current, voltage, power>>
gauges == <<ina260Current, ina260Voltage, ina260Power>>
history == <<iterTx, delays, iterStart, fails, lag>>
codec == <<codecIn, codecOut>>

\* the state a launch starts in
Start(l) ==
    /\ variant = l.variant
    /\ osArgs = l.osArgs
    /\ tcaAddressFlag = l.tcaAddressFlag
    /\ channelFlag = l.channelFlag
    /\ pc = "host_init"
    /\ exit = "running"
    /\ fatalMsg = ""
    /\ bus = "nil"
    /\ hostname = ""
    /\ tcaAddressStr = <<>>
    /\ channelStr = <<>>
    /\ tcaAddress = Unset
    /\ ina260Channel = Unset
    /\ ina260 = "unset"
    /\ selectErr = ""
    /\ deviceLabel = <<>>
    /\ manufID = Unset
    /\ deviceID = Unset
    /\ warned = FALSE
    /\ rawCurrent = Unset /\ rawVoltage = Unset /\ rawPower = Unset
    /\ current = Unset /\ voltage = Unset /\ power = Unset
    /\ ina260Current = (IF l.variant = "main" THEN NewGauge ELSE NewGaugeVec)
    /\ ina260Voltage = (IF l.variant = "main" THEN NewGauge ELSE NewGaugeVec)
    /\ ina260Power = (IF l.variant = "main" THEN NewGauge ELSE NewGaugeVec)
    /\ http = "off"
    /\ scraped = <<>>
    /\ setupTx = <<>>
    /\ iterTx = <<>>
    /\ delays = <<>>
    /\ iterStart = <<>>
    /\ fails = 0
    /\ lag = <<0, 0, 0>>
    /\ codecOut = [reg |-> Unset, raw |-> Unset, value |-> Unset]

Init == /\ \E l \in Launches : Start(l)
        /\ codecIn = <<0, 0>>

----------------------------------------------------------------------------
(* Ways the process ends *)

\* the error only logged, as log.Printf does: main goes on to its reads
FatalLogOnly(msg) ==
    /\ pc' = "read_manuf"
    /\ fatalMsg' = msg
    /\ UNCHANGED <<exit, bus>>

\* log.Fatal / log.Fatalf: os.Exit(1), deferred calls do not run
Fatal(msg) ==
    /\ pc' = "exited"
    /\ exit' = "fatal"
    /\ fatalMsg' = msg
    /\ UNCHANGED bus

\* a run-time panic in main: deferred calls run, then the process dies
Panic(msg) ==
    /\ pc' = "exited"
    /\ exit' = "panic"
    /\ fatalMsg' = msg
    /\ bus' = IF bus = "open" THEN "closed" ELSE bus

\* the main goroutine held back until the listener is up
RunningOnceListening == exit = "running" /\ http # "starting"

\* the process has not ended
Running == exit = "running"

----------------------------------------------------------------------------
(* One-time setup *)

\* host.Init(), main.go 89-91
HostInit ==
    /\ Running /\ pc = "host_init" /\ variant # "flags"
    /\ \/ pc' = "bus_open" /\ UNCHANGED <<exit, fatalMsg, bus>>
       \/ Fatal("host_init")
    /\ UNCHANGED <<inputs, hostname, config, ina260, selectErr, deviceLabel,
                   ident, locals, gauges, http, setupTx, history, scraped, codec>>

\* pc after the bus is open
AfterBusOpen(v) ==
    CASE v = "main" -> "args"
      [] v = "select_only" -> "select"
      [] OTHER -> "hostname"

\* i2creg.Open("") and defer bus.Close(), main.go 93-97; part_003 fixes the
\* address and the channel (part_003 24, 29)
BusOpen ==
    /\ Running /\ pc = "bus_open"
    /\ \/ /\ bus' = "open"
          /\ pc' = AfterBusOpen(variant)
          /\ IF variant = "select_only"
               THEN tcaAddress' = 112 /\ ina260Channel' = 0
               ELSE UNCHANGED <<tcaAddress, ina260Channel>>
          /\ UNCHANGED <<exit, fatalMsg>>
       \/ Fatal("bus_open") /\ UNCHANGED <<tcaAddress, ina260Channel>>
    /\ UNCHANGED <<inputs, hostname, tcaAddressStr, channelStr, ina260, selectErr,
                   deviceLabel, ident, locals, gauges, http, setupTx, history,
                   scraped, codec>>

\* part_000 72-81 and 123-124: initializeI2C, its error dropped by main, then
\* defer bus.Close(), which panics on the nil interface of a failed open
InitializeI2C ==
    /\ Running /\ pc = "host_init" /\ variant = "flags"
    /\ \/ bus' = "open" /\ pc' = "hostname" /\ UNCHANGED <<exit, fatalMsg>>
       \/ Panic("nil_bus")
    /\ UNCHANGED <<inputs, hostname, config, ina260, selectErr, deviceLabel,
                   ident, locals, gauges, http, setupTx, history, scraped, codec>>

\* os.Hostname(), part_001 84-87, part_000 127-130
Hostname ==
    /\ Running /\ pc = "hostname"
    /\ \/ hostname' = "host" /\ pc' = "args" /\ UNCHANGED <<exit, fatalMsg, bus>>
       \/ Fatal("hostname") /\ UNCHANGED hostname
    /\ UNCHANGED <<inputs, config, ina260, selectErr, deviceLabel, ident, locals,
                   gauges, http, setupTx, history, scraped, codec>>

\* a single argument taken as the address, the channel left at its default
ArgStringsOneArg(v, args, addrFlag, chFlag) ==
    IF v = "flags" THEN <<addrFlag, Itoa(chFlag)>>
    ELSE IF Len(args) + 1 < 2 THEN <<DefaultAddrStr, DefaultChannelStr>>
    ELSE IF Len(args) + 1 < 3 THEN <<args[1], DefaultChannelStr>>
    ELSE <<args[1], args[2]>>

\* main.go 104-111: the two strings, from the command line or the defaults;
\* os.Args counts the program name.  part_000 135-136: from the flags.
ArgStrings(v, args, addrFlag, chFlag) ==
    IF v = "flags" THEN <<addrFlag, Itoa(chFlag)>>
    ELSE IF Len(args) + 1 < 3 THEN <<DefaultAddrStr, DefaultChannelStr>>
    ELSE <<args[1], args[2]>>

Args ==
    /\ Running /\ pc = "args"
    /\ tcaAddressStr' = ArgStrings(variant, osArgs, tcaAddressFlag, channelFlag)[1]
    /\ channelStr' = ArgStrings(variant, osArgs, tcaAddressFlag, channelFlag)[2]
    /\ pc' = "parse_addr"
    /\ UNCHANGED <<inputs, exit, fatalMsg, bus, hostname, tcaAddress, ina260Channel,
                   ina260, selectErr, deviceLabel, ident, locals, gauges, http,
                   setupTx, history, scraped, codec>>

\* strconv.ParseUint(tcaAddressStr, 0, 16), main.go 113-117, part_000 84-88
ParseAddress ==
    /\ Running /\ pc = "parse_addr"
    /\ LET r == ParseUint(tcaAddressStr, AddrBits) IN
       IF r.err # ""
         THEN Fatal("invalid_address") /\ UNCHANGED tcaAddress
         ELSE /\ tcaAddress' = r.val
              /\ pc' = "parse_channel"
              /\ UNCHANGED <<exit, fatalMsg, bus>>
    /\ UNCHANGED <<inputs, hostname, tcaAddressStr, channelStr, ina260Channel,
                   ina260, selectErr, deviceLabel, ident, locals, gauges, http,
                   setupTx, history, scraped, codec>>

\* the range test with its upper limit off by one
ChannelInRangeLoose(n) == ~(n < 0 \/ n > MaxChannel + 1)

\* the range test of main.go 128
ChannelInRange(n) == ~(n < 0 \/ n > MaxChannel)

\* a configuration error of the channel: fatal in main, returned by getDevice
\* (part_000 95-100), whose caller goes on with a nil device (part_000 140)
ChannelError(msg) ==
    IF variant = "flags"
      THEN /\ selectErr' = msg
           /\ ina260' = "nil"
           /\ pc' = "label"
           /\ UNCHANGED <<exit, fatalMsg, bus>>
      ELSE /\ Fatal(msg)
           /\ selectErr' = msg
           /\ UNCHANGED ina260

\* strconv.Atoi(channelStr) and the range test, main.go 124-131
ParseChannel ==
    /\ Running /\ pc = "parse_channel"
    /\ LET r == Atoi(channelStr) IN
       IF r.err # ""
         THEN ChannelError("invalid_channel") /\ UNCHANGED ina260Channel
       ELSE IF ~ChannelInRange(r.val)
         THEN ChannelError("channel_range") /\ UNCHANGED ina260Channel
       ELSE /\ ina260Channel' = Byte(r.val)
            /\ pc' = "select"
            /\ UNCHANGED <<exit, fatalMsg, bus, ina260, selectErr>>
    /\ UNCHANGED <<inputs, hostname, tcaAddressStr, channelStr, tcaAddress,
                   deviceLabel, ident, locals, gauges, http, setupTx, history,
                   scraped, codec>>

\* pc after a successful channel-select write
AfterSelect(v) ==
    CASE v = "main" -> "read_manuf"
      [] v = "labeled" -> "label"
      [] v = "flags" -> "probe"
      [] OTHER -> "return"

\* tca.Tx([]byte{channelSelectionByte}, nil), main.go 133-142, part_000 103-106
SelectChannel ==
    /\ Running /\ pc = "select"
    /\ \E tx \in SelectTxs(tcaAddress, ina260Channel) :
         /\ setupTx' = Append(setupTx, tx)
         /\ IF tx.ok
              THEN /\ pc' = AfterSelect(variant)
                   /\ ina260' = (IF variant \in {"main", "labeled"} THEN "dev" ELSE ina260)
                   /\ UNCHANGED <<exit, fatalMsg, bus, selectErr>>
            ELSE IF variant = "flags"
              THEN /\ selectErr' = "select_failed"
                   /\ ina260' = "nil"
                   /\ pc' = "label"
                   /\ UNCHANGED <<exit, fatalMsg, bus>>
            ELSE /\ Fatal("select_failed")
                 /\ selectErr' = "select_failed"
                 /\ UNCHANGED ina260
    /\ UNCHANGED <<inputs, hostname, config, deviceLabel, ident, locals, gauges,
                   http, history, scraped, codec>>

\* dev.Tx([]byte{0}, nil), part_000 109-114
Probe ==
    /\ Running /\ pc = "probe"
    /\ \E tx \in ProbeTxs :
         /\ setupTx' = Append(setupTx, tx)
         /\ IF tx.ok
              THEN ina260' = "dev" /\ UNCHANGED selectErr
              ELSE ina260' = "nil" /\ selectErr' = "probe_failed"
    /\ pc' = "label"
    /\ UNCHANGED <<inputs, exit, fatalMsg, bus, hostname, config, deviceLabel,
                   ident, locals, gauges, http, history, scraped, codec>>

\* part_001 135, part_000 143
DeviceLabel(v) ==
    IF v = "flags" THEN DeviceLabelStr(tcaAddressStr, channelStr)
    ELSE DeviceLabelNum(tcaAddress, ina260Channel)

SetDeviceLabel ==
    /\ Running /\ pc = "label"
    /\ deviceLabel' = DeviceLabel(variant)
    /\ pc' = "read_manuf"
    /\ UNCHANGED <<inputs, exit, fatalMsg, bus, hostname, config, ina260,
                   selectErr, ident, locals, gauges, http, setupTx, history,
                   scraped, codec>>

\* part_003 35-40: main returns, the deferred bus.Close() runs
Return ==
    /\ Running /\ pc = "return"
    /\ pc' = "exited" /\ exit' = "return" /\ bus' = "closed"
    /\ UNCHANGED <<inputs, fatalMsg, hostname, config, ina260, selectErr,
                   deviceLabel, ident, locals, gauges, http, setupTx, history,
                   scraped, codec>>

\* an identity read of setup, main.go 146-153: a nil device panics inside
\* dev.Tx before anything reaches the bus; a failed read is fatal
ReadIdentity(at, reg, next) ==
    /\ Running /\ pc = at
    /\ IF ina260 = "nil"
         THEN Panic("nil_device") /\ UNCHANGED <<setupTx, manufID, deviceID>>
         ELSE \E tx \in RegTxs(reg) :
                /\ setupTx' = Append(setupTx, tx)
                /\ IF tx.ok
                     THEN /\ manufID' = (IF reg = ina260RegManufID THEN RegValue(tx) ELSE manufID)
                          /\ deviceID' = (IF reg = ina260RegDeviceID THEN RegValue(tx) ELSE deviceID)
                          /\ pc' = next
                          /\ UNCHANGED <<exit, fatalMsg, bus>>
                     ELSE Fatal("identity_read") /\ UNCHANGED <<manufID, deviceID>>
    /\ UNCHANGED <<inputs, hostname, config, ina260, selectErr, deviceLabel,
                   warned, locals, gauges, http, history, scraped, codec>>

ReadManufID == ReadIdentity("read_manuf", ina260RegManufID, "read_device")

ReadDeviceID == ReadIdentity("read_device", ina260RegDeviceID, "check_id")

\* main.go 155: the test that prints the warning
IdentityMismatch(m, d) == m # ExpectedManufID \/ d # ExpectedDeviceID

\* a mismatch handled with log.Fatalf: the run stops at the check
AfterIdentityCheckStrict(mismatch) == IF mismatch THEN "exited" ELSE "start_http"

\* main.go 155-157: the mismatch is reported with log.Printf and main goes on
\* to the next statement either way
AfterIdentityCheck(mismatch) == "start_http"

\* main.go 154-157
CheckIdentity ==
    /\ Running /\ pc = "check_id"
    /\ warned' = IdentityMismatch(manufID, deviceID)
    /\ pc' = AfterIdentityCheck(warned')
    /\ UNCHANGED <<inputs, exit, fatalMsg, bus, hostname, config, ina260,
                   selectErr, deviceLabel, manufID, deviceID, locals, gauges,
                   http, setupTx, history, scraped, codec>>

\* go func() { ... }(), main.go 160-167
StartHttp ==
    /\ Running /\ pc = "start_http"
    /\ http' = "starting"
    /\ pc' = "read_current"
    /\ UNCHANGED <<inputs, exit, fatalMsg, bus, hostname, config, ina260,
                   selectErr, deviceLabel, ident, locals, gauges, setupTx,
                   history, scraped, codec>>

----------------------------------------------------------------------------
(* The polling loop, main.go 171-214 *)

ReadPcs == {"read_current", "read_voltage", "read_power"}
SetPcs == {"set_current", "set_voltage", "set_power"}
SleepPcs == {"sleep_current_err", "sleep_voltage_err", "sleep_power_err", "sleep"}
LoopPcs == ReadPcs \cup SetPcs \cup SleepPcs

\* the conversion applied to the raw value of a register
Convert(reg, raw) ==
    CASE reg = ina260RegCurrent -> CurrentAmps(raw)
      [] reg = ina260RegBusVoltage -> VoltageVolts(raw)
      [] OTHER -> PowerWatts(raw)

\* the reads in another order
OnReadOkSwapped(reg) ==
    CASE reg = ina260RegCurrent -> "read_power"
      [] reg = ina260RegPower -> "read_voltage"
      [] OTHER -> "set_current"

\* the gauge updates left out
OnReadOkNoPublish(reg) ==
    CASE reg = ina260RegCurrent -> "read_voltage"
      [] reg = ina260RegBusVoltage -> "read_power"
      [] OTHER -> "sleep"

\* where the loop goes after a successful read: the next read, then the
\* gauge updates (main.go 186, 197, 209)
OnReadOk(reg) ==
    CASE reg = ina260RegCurrent -> "read_voltage"
      [] reg = ina260RegBusVoltage -> "read_power"
      [] OTHER -> "set_current"

\* a failed power read that falls through to the gauge updates
OnReadErrorFallThrough(reg) ==
    CASE reg = ina260RegCurrent -> "sleep_current_err"
      [] reg = ina260RegBusVoltage -> "sleep_voltage_err"
      [] OTHER -> "set_current"

\* a failed voltage read retried at once, without the sleep
OnReadErrorNoSleep(reg) ==
    CASE reg = ina260RegCurrent -> "sleep_current_err"
      [] reg = ina260RegBusVoltage -> "read_current"
      [] OTHER -> "sleep_power_err"

\* a retry ceiling: the loop gives up after repeated failures
OnReadErrorGiveUp(reg) ==
    IF fails >= 1 THEN "gave_up"
    ELSE CASE reg = ina260RegCurrent -> "sleep_current_err"
           [] reg = ina260RegBusVoltage -> "sleep_voltage_err"
           [] OTHER -> "sleep_power_err"

\* where the loop goes after a failed read: log, sleep, continue
\* (main.go 174-178, 187-191, 198-202)
OnReadError(reg) ==
    CASE reg = ina260RegCurrent -> "sleep_current_err"
      [] reg = ina260RegBusVoltage -> "sleep_voltage_err"
      [] OTHER -> "sleep_power_err"

\* the time.Sleep of each site (main.go 176, 189, 200, 213), in seconds
SleepDuration(site) == SleepSeconds

\* the loop body begun at the identity reads
AfterSleepRecheck(site) == "read_manuf"

\* the loop body begun at the channel-select write
AfterSleepReselect(site) == "select"

\* a break in place of the continue after a failed current read
AfterSleepBreak(site) == IF site = "sleep_current_err" THEN "left_loop" ELSE "read_current"

\* where the loop goes after its sleep: continue / end of the loop body
AfterSleep(site) == "read_current"

Saturate(n, max) == IF n < max THEN n + 1 ELSE max

\* one register read of the loop and the conversion that follows it
ReadRegister(at, reg) ==
    /\ Running /\ pc = at
    /\ \E tx \in RegTxs(reg) :
         /\ IF at = "read_current"
              THEN /\ iterTx' = <<tx>>
                   /\ delays' = <<>>
                   /\ iterStart' = Gauges
              ELSE /\ iterTx' = Append(iterTx, tx)
                   /\ UNCHANGED <<delays, iterStart>>
         /\ rawCurrent' = (IF reg = ina260RegCurrent THEN RegValue(tx) ELSE rawCurrent)
         /\ rawVoltage' = (IF reg = ina260RegBusVoltage THEN RegValue(tx) ELSE rawVoltage)
         /\ rawPower' = (IF reg = ina260RegPower THEN RegValue(tx) ELSE rawPower)
         /\ IF tx.ok
              THEN /\ current' = (IF reg = ina260RegCurrent
                                    THEN Convert(reg, RegValue(tx)) ELSE current)
                   /\ voltage' = (IF reg = ina260RegBusVoltage
                                    THEN Convert(reg, RegValue(tx)) ELSE voltage)
                   /\ power' = (IF reg = ina260RegPower
                                  THEN Convert(reg, RegValue(tx)) ELSE power)
                   /\ pc' = OnReadOk(reg)
                   /\ lag' = (IF reg = ina260RegPower
                                THEN [g \in 1..3 |-> Saturate(lag[g], MaxLag)]
                                ELSE lag)
                   /\ UNCHANGED fails
              ELSE /\ pc' = OnReadError(reg)
                   /\ fails' = Saturate(fails, MaxFails)
                   /\ UNCHANGED <<current, voltage, power, lag>>
    /\ UNCHANGED <<inputs, exit, fatalMsg, bus, hostname, config, ina260,
                   selectErr, deviceLabel, ident, gauges, http, setupTx, scraped, codec>>

ReadCurrent == ReadRegister("read_current", ina260RegCurrent)

ReadVoltage == ReadRegister("read_voltage", ina260RegBusVoltage)

ReadPower == ReadRegister("read_power", ina260RegPower)

\* the voltage update left out
AfterSetSkipVoltage(at) ==
    CASE at = "set_current" -> "set_power"
      [] at = "set_voltage" -> "set_power"
      [] OTHER -> "sleep"

\* the statement after a gauge update: main.go 209-213, the three Set calls
\* one after the other, then the sleep
AfterSet(at) ==
    CASE at = "set_current" -> "set_voltage"
      [] at = "set_voltage" -> "set_power"
      [] OTHER -> "sleep"

\* ina260Current.Set(current), main.go 209
SetCurrent ==
    /\ Running /\ pc = "set_current"
    /\ ina260Current' = GaugeSet(ina260Current, LabelValues, current)
    /\ lag' = [lag EXCEPT ![1] = 0]
    /\ pc' = AfterSet(pc)
    /\ UNCHANGED <<inputs, exit, fatalMsg, bus, hostname, config, ina260,
                   selectErr, deviceLabel, ident, locals, ina260Voltage,
                   ina260Power, http, setupTx, iterTx, delays, iterStart,
                   fails, scraped, codec>>

\* ina260Voltage.Set(voltage), main.go 210
SetVoltage ==
    /\ Running /\ pc = "set_voltage"
    /\ ina260Voltage' = GaugeSet(ina260Voltage, LabelValues, voltage)
    /\ lag' = [lag EXCEPT ![2] = 0]
    /\ pc' = AfterSet(pc)
    /\ UNCHANGED <<inputs, exit, fatalMsg, bus, hostname, config, ina260,
                   selectErr, deviceLabel, ident, locals, ina260Current,
                   ina260Power, http, setupTx, iterTx, delays, iterStart,
                   fails, scraped, codec>>

\* ina260Power.Set(power), main.go 211
SetPower ==
    /\ Running /\ pc = "set_power"
    /\ ina260Power' = GaugeSet(ina260Power, LabelValues, power)
    /\ lag' = [lag EXCEPT ![3] = 0]
    /\ pc' = AfterSet(pc)
    /\ fails' = 0
    /\ UNCHANGED <<inputs, exit, fatalMsg, bus, hostname, config, ina260,
                   selectErr, deviceLabel, ident, locals, ina260Current,
                   ina260Voltage, http, setupTx, iterTx, delays, iterStart,
                   scraped, codec>>

\* time.Sleep(1 * time.Second) and the end of the loop body: the iteration
\* is over and the variables the body declared go out of scope
Sleep ==
    /\ Running /\ pc \in SleepPcs
    /\ delays' = Append(delays, SleepDuration(pc))
    /\ pc' = AfterSleep(pc)
    /\ rawCurrent' = Unset /\ rawVoltage' = Unset /\ rawPower' = Unset
    /\ current' = Unset /\ voltage' = Unset /\ power' = Unset
    /\ iterTx' = <<>>
    /\ iterStart' = <<>>
    /\ UNCHANGED <<inputs, exit, fatalMsg, bus, hostname, config, ina260,
                   selectErr, deviceLabel, ident, gauges, http, setupTx, fails,
                   lag, scraped, codec>>

----------------------------------------------------------------------------
(* The metrics goroutine, main.go 160-167 *)

\* http.ListenAndServe starts serving
HttpListen ==
    /\ Running /\ http = "starting"
    /\ http' = "serving"
    /\ UNCHANGED <<inputs, pc, exit, fatalMsg, bus, hostname, config, ina260,
                   selectErr, deviceLabel, ident, locals, gauges, setupTx,
                   history, scraped, codec>>

\* http.ListenAndServe returns its error: log.Fatalf ends the process
HttpFatal ==
    /\ Running /\ http \in {"starting", "serving"}
    /\ http' = "failed"
    /\ Fatal("http_server")
    /\ UNCHANGED <<inputs, hostname, config, ina260, selectErr, deviceLabel,
                   ident, locals, gauges, setupTx, history, scraped, codec>>

\* a handler that zeroes every series once it has reported it
ScrapeAndReset ==
    /\ Running /\ http = "serving"
    /\ scraped' = Gauges
    /\ ina260Current' = [l \in DOMAIN ina260Current |-> 0]
    /\ ina260Voltage' = [l \in DOMAIN ina260Voltage |-> 0]
    /\ ina260Power' = [l \in DOMAIN ina260Power |-> 0]
    /\ UNCHANGED <<inputs, pc, exit, fatalMsg, bus, hostname, config, ina260,
                   selectErr, deviceLabel, ident, locals, http, setupTx,
                   history, codec>>

\* promhttp.Handler() serving one GET /metrics: it gathers the registered
\* gauges and writes them out
Scrape ==
    /\ Running /\ http = "serving"
    /\ scraped' = Gauges
    /\ UNCHANGED <<inputs, pc, exit, fatalMsg, bus, hostname, config, ina260,
                   selectErr, deviceLabel, ident, locals, gauges, http, setupTx,
                   history, codec>>

----------------------------------------------------------------------------
(* The program *)

Setup ==
    \/ HostInit \/ BusOpen \/ InitializeI2C \/ Hostname \/ Args
    \/ ParseAddress \/ ParseChannel \/ SelectChannel \/ Probe
    \/ SetDeviceLabel \/ Return \/ ReadManufID \/ ReadDeviceID
    \/ CheckIdentity \/ StartHttp

Loop ==
    \/ ReadCurrent \/ ReadVoltage \/ ReadPower
    \/ SetCurrent \/ SetVoltage \/ SetPower \/ Sleep

Http == HttpListen \/ HttpFatal \/ Scrape

Next == Setup \/ Loop \/ Http

Spec == Init /\ [][Next]_vars

\* the goroutine of main keeps being scheduled while the process lives
FairSpec == Spec /\ WF_vars(Loop)

----------------------------------------------------------------------------
(* Codec harness: every pair of bytes a register read can return, decoded  *)
(* and converted as the loop does it.                                      *)

Bytes == 0..255

CodecInit ==
    /\ Start([variant |-> "main", osArgs |-> <<>>,
              tcaAddressFlag |-> DefaultAddrStr, channelFlag |-> DefaultChannelFlag])
    /\ codecIn \in Bytes \X Bytes

Decode(reg) ==
    /\ codecOut' = [reg |-> reg,
                    raw |-> RegValue(Tx(ina260Address, <<reg>>, 2, TRUE, codecIn)),
                    value |-> Convert(reg, RegValue(Tx(ina260Address, <<reg>>, 2, TRUE, codecIn)))]
    /\ UNCHANGED <<inputs, pc, exit, fatalMsg, bus, hostname, config, ina260,
                   selectErr, deviceLabel, ident, locals, gauges, http, setupTx,
                   history, scraped, codecIn>>

DecodeCurrent == Decode(ina260RegCurrent)

DecodeVoltage == Decode(ina260RegBusVoltage)

DecodePower == Decode(ina260RegPower)

CodecNext == DecodeCurrent \/ DecodeVoltage \/ DecodePower

CodecSpec == CodecInit /\ [][CodecNext]_vars

----------------------------------------------------------------------------
(* Properties *)

Last(s) == s[Len(s)]

LoopStarted == http # "off"

\* the channel index the launch configures (part_003 fixes channel 0)
ConfiguredChannel ==
    IF variant = "select_only" THEN [err |-> "", val |-> 0]
    ELSE Atoi(ArgStrings(variant, osArgs, tcaAddressFlag, channelFlag)[2])

\* the address the launch configures (part_003 fixes 0x70)
ConfiguredAddress ==
    IF variant = "select_only" THEN [err |-> "", val |-> 112]
    ELSE ParseUint(ArgStrings(variant, osArgs, tcaAddressFlag, channelFlag)[1], AddrBits)

SingleBits == {1, 2, 4, 8, 16, 32, 64, 128}

\* the channel-select step has been carried out
SelectDone == ina260Channel # Unset /\ pc # "select"

\* C1: for a configured channel c in 0..7 the channel-select step issues
\* exactly one bus transaction, the first of the run: a write to the
\* multiplexer address of the single byte 1<<c (one bit set, never 0), with
\* no register-address byte before it and no byte read; every transaction
\* after it belongs to a step that talks to the sensor.
C1_SelectWritesMask ==
    /\ ~SelectDone => setupTx = <<>>
    /\ SelectDone =>
         /\ setupTx # <<>>
         /\ ConfiguredChannel.val \in 0..7
         /\ setupTx[1].addr = ConfiguredAddress.val
         /\ setupTx[1].w = <<Pow(2, ConfiguredChannel.val)>>
         /\ setupTx[1].w[1] \in SingleBits
         /\ setupTx[1].rlen = 0
         /\ setupTx[1].r = <<>>
         /\ \A i \in 2..Len(setupTx) : setupTx[i].addr = 64
    /\ \A i \in DOMAIN iterTx : iterTx[i].addr = 64

C1_Witness ==
    /\ pc = "read_current"
    /\ ConfiguredChannel.val = 7
    /\ setupTx[1] = Tx(112, <<128>>, 0, TRUE, <<>>)

\* the launch configures a channel index outside 0..7
ChannelOutOfRange ==
    ConfiguredChannel.err = "" /\ ~(ConfiguredChannel.val \in 0..7)

\* the run has come past the channel check
ChannelChecked ==
    /\ pc \notin {"host_init", "bus_open", "hostname", "args", "parse_addr",
                  "parse_channel"}
    /\ fatalMsg \notin {"host_init", "bus_open", "hostname", "invalid_address",
                        "nil_bus"}

\* C2: with a channel index outside 0..7 channel selection fails with the
\* configuration error and the run issues no bus transaction at all, neither
\* to the multiplexer nor to the INA260.
C2_BadChannelNoBusTraffic ==
    ChannelOutOfRange =>
        /\ setupTx = <<>>
        /\ iterTx = <<>>
        /\ pc \notin LoopPcs
        /\ ChannelChecked => selectErr = "channel_range"

C2_Witness ==
    /\ ChannelOutOfRange
    /\ ConfiguredChannel.val = 255
    /\ exit # "running"
    /\ selectErr = "channel_range"

\* a read of the current iteration has failed
IterationFailed == iterTx # <<>> /\ ~Last(iterTx).ok

\* C3: in a polling iteration with a failed register read none of the three
\* gauges is written: the published values are those of the iteration's
\* start, whichever read failed.
C3_FailedIterationPublishesNothing ==
    /\ [](IterationFailed => Gauges = iterStart)
    /\ [][IterationFailed => gauges' = gauges]_vars

C3_Witness ==
    /\ pc = "sleep_power_err"
    /\ LabelValues \in DOMAIN ina260Current
    /\ ina260Current[LabelValues] # current
    /\ voltage # Unset
    /\ ina260Voltage[LabelValues] # voltage

\* C4: every iteration sleeps exactly once, for one second, after its last
\* bus transaction: nothing is slept before the iteration's reads and gauge
\* updates are over, and the next read of the current register finds exactly
\* one delay since the previous one.
C4_OneDelayPerIteration ==
    /\ [](pc \in LoopPcs \ {"read_current"} => delays = <<>>)
    /\ [](pc = "read_current" => delays \in {<<>>, <<1>>})
    /\ [][(pc \in LoopPcs) /\ pc' # pc /\ exit' = "running" =>
            (IF pc \in SleepPcs
               THEN pc' = "read_current" /\ delays' = <<1>>
               ELSE pc' # "read_current" /\ delays' = <<>>)]_vars

C4_Witness ==
    /\ pc = "read_current"
    /\ fails = 1
    /\ delays = <<SleepSeconds>>

\* the step is a failed register read of the loop
ReadFailStep == pc \in ReadPcs /\ pc' # pc /\ iterTx' # <<>> /\ ~Last(iterTx').ok

\* C5: read failures never end the loop: while the process runs the loop is
\* at one of its steps and can take it, after any number of consecutive
\* failures, and a failed read leads to the sleep of its site whatever the
\* number of failures before it.
C5_FailuresNeverEndLoop ==
    /\ [](LoopStarted /\ Running => pc \in LoopPcs /\ ENABLED Loop)
    /\ [][ReadFailStep =>
            /\ pc' \in SleepPcs \ {"sleep"}
            /\ pc' = CASE pc = "read_current" -> "sleep_current_err"
                       [] pc = "read_voltage" -> "sleep_voltage_err"
                       [] OTHER -> "sleep_power_err"
            /\ exit' = "running"]_vars

C5_Witness ==
    /\ fails = MaxFails
    /\ pc = "read_voltage"
    /\ Running

\* the three gauges hold the conversions of the three values the current
\* iteration read, and the iteration is over but for its sleep
Published ==
    /\ pc = "sleep"
    /\ Len(iterTx) = 3
    /\ LabelValues \in DOMAIN ina260Current
    /\ ina260Current[LabelValues] = Int16(RegValue(iterTx[1])) * currentLSB
    /\ ina260Voltage[LabelValues] = RegValue(iterTx[2]) * voltageLSB
    /\ ina260Power[LabelValues] = RegValue(iterTx[3]) * powerLSB

\* C6: self-healing: with the loop fairly scheduled in a process that stays
\* alive, if from some point on no register read fails, the triple of one
\* iteration is published again and again, however many failed iterations
\* came before.
C6_SelfHealing ==
    ([]Running /\ <>LoopStarted /\ <>[][~ReadFailStep]_vars) => []<>Published

C6_Witness ==
    /\ Published
    /\ fails = 0
    /\ delays = <<>>
    /\ iterStart # <<NewGauge, NewGauge, NewGauge>>
    /\ iterStart # <<NewGaugeVec, NewGaugeVec, NewGaugeVec>>
    /\ iterStart # Gauges
    /\ warned

\* the 16 bits the codec harness was given, as an unsigned number
CodecRaw == 256 * codecIn[1] + codecIn[2]

\* C7: the published current is s * 1.25 mA, s being the raw value read as
\* two's-complement signed 16-bit: 0xFFFF gives -1 LSB, 0x0001 +1 LSB,
\* 0x7FFF the largest and 0x8000 the most negative current; no raw value
\* counts as 32768 LSB or more.
C7_CurrentIsSigned ==
    codecOut.reg = ina260RegCurrent =>
        /\ codecOut.raw = CodecRaw
        /\ codecOut.value =
             (IF CodecRaw < 32768 THEN CodecRaw ELSE CodecRaw - 65536) * 1250
        /\ codecOut.value < 32768 * 1250
        /\ codecOut.value >= (0 - 32768) * 1250
        /\ CodecRaw = 65535 => codecOut.value = 0 - 1250
        /\ CodecRaw = 1 => codecOut.value = 1250
        /\ CodecRaw = 32767 => codecOut.value = 32767 * 1250
        /\ CodecRaw = 32768 => codecOut.value = (0 - 32768) * 1250

C7_Witness ==
    /\ codecIn = <<255, 255>>
    /\ codecOut.reg = ina260RegCurrent
    /\ codecOut.value = 0 - 1250

\* C8: the published voltage is r * 1.25 mV and the published power
\* r * 10 mW for the unsigned raw value r, so neither is ever negative:
\* 0x0190 gives 0.5 V, 0x0064 gives 1.0 W, 0x8000 and above stay positive.
C8_VoltagePowerUnsigned ==
    /\ codecOut.reg = ina260RegBusVoltage =>
         /\ codecOut.value = CodecRaw * 1250
         /\ codecOut.value >= 0
         /\ CodecRaw = 400 => codecOut.value = 500000
         /\ CodecRaw >= 32768 => codecOut.value > 0
    /\ codecOut.reg = ina260RegPower =>
         /\ codecOut.value = CodecRaw * 10000
         /\ codecOut.value >= 0
         /\ CodecRaw = 100 => codecOut.value = 1000000
         /\ CodecRaw >= 32768 => codecOut.value > 0

C8_Witness ==
    /\ codecIn = <<128, 0>>
    /\ codecOut.reg = ina260RegBusVoltage
    /\ codecOut.value = 40960000

\* a register read of the sensor, as a transaction
IsRegisterRead(tx, reg) ==
    /\ tx.addr = 64
    /\ tx.w = <<reg>>
    /\ tx.rlen = 2
    /\ IF tx.ok THEN Len(tx.r) = 2 ELSE tx.r = <<>>

\* the value a successful register read has to return
Decoded(tx) == 256 * tx.r[1] + tx.r[2]

\* number of register reads the loop has made in its iteration at each pc
ReadsAt(p) ==
    CASE p \in {"read_voltage", "sleep_current_err"} -> {1}
      [] p \in {"read_power", "sleep_voltage_err"} -> {2}
      [] p \in SetPcs \cup {"sleep", "sleep_power_err"} -> {3}
      [] OTHER -> 0..3

\* C9: a register read is one transaction to the sensor that writes the one
\* register-address byte and reads two bytes b0, b1; a successful read
\* yields 256*b0 + b1, in 0..65535; a failed read yields an error and the
\* caller converts and publishes nothing from it.
C9_RegisterRead ==
    /\ \A i \in DOMAIN iterTx : IsRegisterRead(iterTx[i], iterTx[i].w[1])
    /\ pc \in LoopPcs => Len(iterTx) \in ReadsAt(pc)
    /\ \A i \in DOMAIN setupTx : setupTx[i].rlen # 0 =>
          IsRegisterRead(setupTx[i], setupTx[i].w[1])
    /\ manufID # Unset =>
          \E i \in DOMAIN setupTx :
             setupTx[i].w = <<254>> /\ setupTx[i].ok /\ manufID = Decoded(setupTx[i])
    /\ deviceID # Unset =>
          \E i \in DOMAIN setupTx :
             setupTx[i].w = <<255>> /\ setupTx[i].ok /\ deviceID = Decoded(setupTx[i])
    /\ rawCurrent # Unset /\ iterTx[1].ok =>
          rawCurrent = Decoded(iterTx[1]) /\ rawCurrent \in 0..65535
    /\ rawVoltage # Unset /\ iterTx[2].ok => rawVoltage = Decoded(iterTx[2])
    /\ rawPower # Unset /\ iterTx[3].ok => rawPower = Decoded(iterTx[3])
    /\ pc = "sleep_current_err" => current = Unset
    /\ pc = "sleep_voltage_err" => voltage = Unset
    /\ pc = "sleep_power_err" => power = Unset
    /\ pc \in SleepPcs \ {"sleep"} => Gauges = iterStart

C9_Witness ==
    /\ pc = "read_power"
    /\ iterTx[2] = Tx(64, <<2>>, 2, TRUE, <<1, 144>>)
    /\ rawVoltage = 400

\* C10: the registers an iteration reads are a prefix of (0x01, 0x02, 0x03):
\* it starts with the current register, reads a register only after all the
\* earlier reads succeeded, and reads nothing more after a failed read.
C10_ReadOrder ==
    /\ Len(iterTx) <= 3
    /\ \A i \in DOMAIN iterTx :
         /\ iterTx[i].w = << <<1, 2, 3>>[i] >>
         /\ i < Len(iterTx) => iterTx[i].ok
    /\ LoopStarted /\ pc \in LoopPcs \ {"read_current"} => iterTx # <<>>
    /\ IterationFailed => pc \in (SleepPcs \ {"sleep"}) \cup {"exited"}

C10_Witness ==
    /\ pc = "sleep_voltage_err"
    /\ Len(iterTx) = 2
    /\ iterTx[1].ok
    /\ ~iterTx[2].ok
    /\ iterTx[2].w = <<2>>
    /\ fails = 1

\* a 16-bit register value read as a two's-complement number
Signed16(raw) == IF raw >= 32768 THEN raw - 65536 ELSE raw

\* the register value a successful transaction of the iteration returned
RawOf(tx) == 256 * tx.r[1] + tx.r[2]

\* C11: an iteration whose three reads succeed publishes exactly three
\* samples, one per gauge and under the label values of the process: the
\* current, voltage and power converted from the raw values read in that same
\* iteration (raw 0x0010, 0x0190, 0x0064 give 0.02 A, 0.5 V and 1.0 W, held
\* here in micro-units), each gauge written by its own step only.
C11_ThreeFreshSamples ==
    /\ [](pc = "sleep" =>
            /\ Len(iterTx) = 3
            /\ \A i \in 1..3 : iterTx[i].ok
            /\ \A g \in 1..3 : DOMAIN Gauges[g] = {LabelValues}
            /\ ina260Current[LabelValues] = Signed16(RawOf(iterTx[1])) * 1250
            /\ ina260Voltage[LabelValues] = RawOf(iterTx[2]) * 1250
            /\ ina260Power[LabelValues] = RawOf(iterTx[3]) * 10000
            /\ (RawOf(iterTx[1]) = 16 /\ RawOf(iterTx[2]) = 400
                   /\ RawOf(iterTx[3]) = 100) =>
                 /\ ina260Current[LabelValues] = 20000
                 /\ ina260Voltage[LabelValues] = 500000
                 /\ ina260Power[LabelValues] = 1000000)
    /\ [][gauges' # gauges =>
            /\ pc \in SetPcs
            /\ pc = "set_current" => <<ina260Voltage, ina260Power>>' = <<ina260Voltage, ina260Power>>
            /\ pc = "set_voltage" => <<ina260Current, ina260Power>>' = <<ina260Current, ina260Power>>
            /\ pc = "set_power" => <<ina260Current, ina260Voltage>>' = <<ina260Current, ina260Voltage>>]_vars

C11_Witness ==
    /\ pc = "sleep"
    /\ variant = "labeled"
    /\ iterTx[1].r = <<0, 16>>
    /\ iterTx[2].r = <<1, 144>>
    /\ iterTx[3].r = <<0, 100>>
    /\ ina260Current[LabelValues] = 20000
    /\ ina260Voltage[LabelValues] = 500000
    /\ ina260Power[LabelValues] = 1000000
    /\ iterStart[1] # NewGaugeVec
    /\ iterStart[1] # ina260Current

\* both identity reads were carried out and succeeded
IdentityRead ==
    /\ \E i \in DOMAIN setupTx : setupTx[i].w = <<254>> /\ setupTx[i].ok
    /\ \E i \in DOMAIN setupTx : setupTx[i].w = <<255>> /\ setupTx[i].ok

\* C12: whatever pair (manufacturer ID, device ID) the identity reads
\* returned, equal to (0x5449, 0x2260) or not, the check goes on to start the
\* metrics server and the polling loop: a mismatch is recorded as a warning,
\* never ends the process (after it only a failed metrics server does) and
\* leaves the loop able to run and to publish.
C12_MismatchIsOnlyAWarning ==
    /\ [](IdentityRead /\ pc = "check_id" => ENABLED CheckIdentity)
    /\ [][pc = "check_id" /\ pc' # pc =>
            /\ pc' = "start_http"
            /\ exit' = "running"
            /\ warned' = (<<manufID, deviceID>> # <<21577, 8800>>)]_vars
    /\ [](warned =>
            \/ /\ exit = "running"
               /\ pc \in {"start_http"} \cup LoopPcs
               /\ ENABLED (StartHttp \/ Loop)
            \/ exit = "fatal" /\ fatalMsg = "http_server")
    /\ [](pc = "sleep" => IdentityRead /\ warned = (<<manufID, deviceID>> # <<21577, 8800>>))

C12_Witness ==
    /\ warned
    /\ manufID = 0
    /\ deviceID = 8800
    /\ pc = "sleep"
    /\ ina260Voltage[LabelValues] = 500000
    /\ ina260Power[LabelValues] = 1000000

\* the bus could not be opened, or a transaction of setup failed
SetupFailure ==
    \/ bus = "nil" /\ fatalMsg \in {"bus_open", "nil_bus"}
    \/ \E i \in DOMAIN setupTx : ~setupTx[i].ok

\* C13: a failure of one-time setup (bus open, channel-select write, an
\* identity read; the probe of part_000 too) terminates the process: the
\* failed transaction is the last one ever issued, no iteration of the loop
\* starts, the metrics server is not started and no sample is published.  The
\* positional variants exit at once (log.Fatalf); part_000 has at most the
\* label assignment left before it dies at its first identity read.
C13_SetupFailureTerminates ==
    /\ [](SetupFailure =>
            /\ http = "off" /\ pc \notin LoopPcs /\ iterTx = <<>>
            /\ scraped = <<>>
            /\ \A g \in 1..3 : Gauges[g] \in {NewGauge, NewGaugeVec}
            /\ \A i \in DOMAIN setupTx : ~setupTx[i].ok => i = Len(setupTx)
            /\ \/ pc = "exited" /\ exit \in {"fatal", "panic"}
               \/ /\ variant = "flags" /\ exit = "running"
                  /\ pc \in {"label", "read_manuf"}
                  /\ ENABLED Setup)
    /\ [][SetupFailure /\ exit = "running" =>
            /\ setupTx' = setupTx
            /\ pc = "label" => pc' = "read_manuf"
            /\ pc = "read_manuf" => pc' = "exited" /\ exit' = "panic"]_vars

C13_Witness ==
    /\ variant = "main"
    /\ Len(setupTx) = 3
    /\ setupTx[2].ok
    /\ setupTx[3].w = <<255>>
    /\ ~setupTx[3].ok
    /\ exit = "fatal"
    /\ fatalMsg = "identity_read"

\* the launch configures an address that does not parse or a channel that
\* does not parse or lies outside 0..7
InvalidConfig ==
    \/ ConfiguredAddress.err # ""
    \/ ConfiguredChannel.err # ""
    \/ ConfiguredChannel.val \notin 0..7

ConfigErrors == {"invalid_address", "invalid_channel", "channel_range"}

\* ways a run ends before its configuration is looked at
EarlierFailures == {"host_init", "bus_open", "nil_bus", "hostname"}

\* C14: in every variant an invalid configuration is fatal at startup: the
\* run never comes to the identity reads, the metrics server or the loop, and
\* once the configuration has been examined the process ends in an exit that
\* reports the configuration error.
C14_InvalidConfigIsFatal ==
    InvalidConfig =>
        /\ pc \notin {"read_manuf", "read_device", "check_id", "start_http"}
                         \cup LoopPcs
        /\ (exit # "running" /\ fatalMsg \notin EarlierFailures) =>
               exit = "fatal" /\ fatalMsg \in ConfigErrors

\* the text "tca0x70_ch3_ina260"
SpecLabel_0x70_ch3 ==
    <<"t","c","a","0","x","7","0","_","c","h","3","_","i","n","a","2","6","0">>

\* the text "tca9548a_0x70_ch3_ina260"
CodeLabel_0x70_ch3 ==
    <<"t","c","a","9","5","4","8","a","_","0","x","7","0","_","c","h","3","_","i","n","a","2","6","0">>

\* the text "tca9548a_112_ch3_ina260"
CodeLabel_112_ch3 ==
    <<"t","c","a","9","5","4","8","a","_","1","1","2","_","c","h","3","_","i","n","a","2","6","0">>

\* the label values of every series the gauges hold
SeriesLabels == UNION { DOMAIN Gauges[g] : g \in 1..3 }

\* C15 as the specification states it: every published sample carries a
\* device label tca<hex-address>_ch<index>_ina260, so that address 0x70 with
\* channel 3 gives exactly tca0x70_ch3_ina260, whether the address was given
\* as 0x70 or as 112.
C15_LabelAsSpecified ==
    \A l \in SeriesLabels :
        (variant # "main" /\ ConfiguredAddress.val = 112
            /\ ConfiguredChannel.val = 3) =>
               Len(l) = 2 /\ l[2] = SpecLabel_0x70_ch3

\* the address as the label of the variant shows it: the parsed number as 0x
\* and upper-case hex digits (part_001), or the flag's text as given (part_000)
LabelAddrText ==
    IF variant = "flags" THEN tcaAddressFlag
    ELSE CASE ConfiguredAddress.val = 112 -> <<"0","x","7","0">>
           [] ConfiguredAddress.val = 113 -> <<"0","x","7","1">>
           [] OTHER -> <<"0","x","?">>

\* C15, amended: every sample of the labelled variants carries the label
\* values (hostname, tca9548a_<address>_ch<index>_ina260), the samples of
\* main.go none.  The positional labelled variant renders the parsed address
\* in hex, so 0x70 and 112 with channel 3 both give tca9548a_0x70_ch3_ina260;
\* the flag-driven variant inserts the address text as given, so 112 gives
\* tca9548a_112_ch3_ina260.
C15_DeviceLabel ==
    \A l \in SeriesLabels :
        /\ variant = "main" => l = <<>>
        /\ variant # "main" =>
              /\ Len(l) = 2
              /\ l[1] = hostname
              /\ l[2] = <<"t","c","a","9","5","4","8","a","_">> \o LabelAddrText \o <<"_","c","h">>
                          \o <<DigitChars[ConfiguredChannel.val + 1]>> \o <<"_","i","n","a","2","6","0">>
              /\ (variant = "labeled" /\ ConfiguredAddress.val = 112
                     /\ ConfiguredChannel.val = 3) => l[2] = CodeLabel_0x70_ch3
              /\ (variant = "flags" /\ tcaAddressFlag = <<"1","1","2">>
                     /\ ConfiguredChannel.val = 3) => l[2] = CodeLabel_112_ch3
              /\ (variant = "flags" /\ tcaAddressFlag = <<"0","x","7","0">>
                     /\ ConfiguredChannel.val = 3) => l[2] = CodeLabel_0x70_ch3

C15_Witness ==
    /\ variant = "labeled"
    /\ osArgs = << <<"1","1","2">>, <<"3">> >>
    /\ pc = "sleep"
    /\ DOMAIN ina260Power = { <<hostname, CodeLabel_0x70_ch3>> }
    /\ ina260Power[<<hostname, CodeLabel_0x70_ch3>>] = 1000000

\* the step is one of the metrics goroutine: the listener coming up or
\* failing, or a response to a scrape
HttpStep == (http # "off" /\ http' # http) \/ scraped' # scraped

\* C16: in every interleaving the polling loop is the only writer of the
\* three gauges: a gauge changes only in a Set step of the loop, and a step
\* of the metrics goroutine changes no gauge and issues no bus transaction;
\* what a scrape reports is the gauges as they stand.
C16_ExpositionOnlyReads ==
    /\ [][gauges' # gauges =>
            /\ pc \in SetPcs /\ pc' \in SetPcs \cup {"sleep"}
            /\ ~HttpStep]_vars
    /\ [][HttpStep =>
            /\ gauges' = gauges
            /\ setupTx' = setupTx /\ iterTx' = iterTx
            /\ locals' = locals
            /\ scraped' # scraped => scraped' = Gauges /\ pc' = pc]_vars
    /\ [](scraped # <<>> => http \in {"serving", "failed"})

C16_Witness ==
    /\ http = "serving"
    /\ pc = "sleep"
    /\ scraped # <<>>
    /\ LabelValues \in DOMAIN scraped[1]
    /\ scraped[1][LabelValues] = 20000
    /\ ina260Current[LabelValues] = 0 - 1250
    /\ scraped[3] = ina260Power

\* C17 as the specification states it: the exposition unit never blocks the
\* polling loop: in every state it can reach once started (waiting to listen,
\* serving, or having failed to start listening) the loop can take its next
\* step.
C17_LoopNeverBlocked ==
    http \in {"starting", "serving", "failed"} => ENABLED Loop

\* C17, amended: while the metrics goroutine is coming up or serving it
\* never blocks the loop: the loop is at one of its steps and can take it,
\* and a step of the goroutine other than a failed listener leaves the
\* loop where it is.  A listener that fails (ListenAndServe returning an
\* error) ends the whole process through log.Fatalf, and the loop with it.
C17_LoopRunsWhileServing ==
    /\ [](http \in {"starting", "serving"} =>
            exit = "running" /\ pc \in LoopPcs /\ ENABLED Loop)
    /\ [][(HttpStep /\ http' # "failed") =>
            /\ pc' = pc /\ exit' = exit
            /\ locals' = locals /\ iterTx' = iterTx /\ delays' = delays]_vars
    /\ [](http = "failed" =>
            /\ exit = "fatal" /\ fatalMsg = "http_server" /\ pc = "exited"
            /\ ~ENABLED Next)

C17_Witness ==
    /\ http = "failed"
    /\ exit = "fatal"
    /\ scraped = <<>>
    /\ Len(iterTx) = 2
    /\ ina260Power # NewGauge
    /\ ina260Power # NewGaugeVec

\* the bus was opened in this run
BusWasOpened == bus \in {"open", "closed"}

\* C18: the bus handle is closed at process exit: on every path by which the
\* process terminates after a successful bus open, fatal setup errors
\* included, the bus has been closed by the time the process has ended.
C18_BusClosedAtExit ==
    (exit # "running" /\ BusWasOpened) => bus = "closed"

\* C19: the multiplexer address the channel-select write is sent to is a
\* 7-bit I2C address: whatever address text the configuration parsing
\* accepted, the channel-select write (the first transaction of a run) goes
\* to the address parsed at startup and that address lies in 0..127.
C19_SevenBitAddress ==
    setupTx # <<>> =>
        /\ setupTx[1].addr = tcaAddress
        /\ setupTx[1].addr \in 0..127

\* the transaction is addressed to the INA260
ToDevice(tx) == tx.addr = 64

\* C20: the channel is selected exactly once and strictly before any
\* transaction to the INA260: a transaction to address 0x40 (probe, identity
\* read, measurement read) is issued only after the first transaction of the
\* run, the select write to the multiplexer, has succeeded; every later
\* transaction is to the sensor; and once the loop has started no setup
\* transaction, so no select write, is issued any more.
C20_SelectOnceBeforeDevice ==
    /\ [](\A i \in DOMAIN setupTx :
            /\ ToDevice(setupTx[i]) =>
                 /\ i > 1
                 /\ setupTx[1].ok
                 /\ setupTx[1].addr = tcaAddress
                 /\ setupTx[1].rlen = 0
                 /\ Len(setupTx[1].w) = 1
            /\ i > 1 => ToDevice(setupTx[i]))
    /\ [](\A i \in DOMAIN iterTx :
            ToDevice(iterTx[i]) /\ setupTx # <<>> /\ setupTx[1].ok
               /\ ~ToDevice(setupTx[1]))
    /\ [][LoopStarted => setupTx' = setupTx]_vars
    /\ [][setupTx # <<>> /\ setupTx' # setupTx =>
            /\ setupTx[1].ok
            /\ \E tx \in RegTxs(0) \cup RegTxs(254) \cup RegTxs(255) \cup ProbeTxs :
                 setupTx' = Append(setupTx, tx)]_vars

C20_Witness ==
    /\ variant = "flags"
    /\ pc = "read_voltage"
    /\ Len(setupTx) = 4
    /\ setupTx[1] = Tx(112, <<8>>, 0, TRUE, <<>>)
    /\ setupTx[2] = Tx(64, <<0>>, 0, TRUE, <<>>)
    /\ Len(iterTx) = 1

\* the positions in the setup log of the reads of register reg
IdentityReads(reg) == { i \in DOMAIN setupTx : setupTx[i].w = <<reg>> /\ setupTx[i].rlen = 2 }

\* C21: the device is identified once per process, after the channel-select
\* write and before the first iteration: register 0xFE is read at most once,
\* register 0xFF at most once and only after 0xFE was read successfully, both
\* after a successful select; a run that has come to the loop made exactly
\* one successful read of each, 0xFE then 0xFF as the last two transactions
\* of setup; and the loop reads neither register and leaves the identity as
\* setup read it.
C21_IdentifiedOnce ==
    /\ [](/\ Cardinality(IdentityReads(254)) <= 1
          /\ Cardinality(IdentityReads(255)) <= 1
          /\ \A i \in IdentityReads(254) : i > 1 /\ setupTx[1].ok /\ setupTx[1].addr # 64
          /\ \A j \in IdentityReads(255) :
               /\ j - 1 \in IdentityReads(254)
               /\ setupTx[j - 1].ok)
    /\ [](pc \in {"start_http"} \cup LoopPcs =>
            /\ Len(setupTx) >= 3
            /\ IdentityReads(254) = {Len(setupTx) - 1}
            /\ IdentityReads(255) = {Len(setupTx)}
            /\ setupTx[Len(setupTx) - 1].ok /\ setupTx[Len(setupTx)].ok
            /\ manufID = 256 * setupTx[Len(setupTx) - 1].r[1] + setupTx[Len(setupTx) - 1].r[2]
            /\ deviceID = 256 * setupTx[Len(setupTx)].r[1] + setupTx[Len(setupTx)].r[2])
    /\ [](\A i \in DOMAIN iterTx : iterTx[i].w \notin {<<254>>, <<255>>})
    /\ [][LoopStarted =>
            /\ setupTx' = setupTx
            /\ <<manufID, deviceID, warned>>' = <<manufID, deviceID, warned>>
            /\ pc' \in LoopPcs \cup {"exited"}]_vars

C21_Witness ==
    /\ variant = "labeled"
    /\ pc = "read_power"
    /\ fails = 1
    /\ Len(setupTx) = 3
    /\ setupTx[2] = Tx(64, <<254>>, 2, TRUE, <<0, 0>>)
    /\ setupTx[3] = Tx(64, <<255>>, 2, TRUE, <<34, 96>>)
    /\ warned
    /\ LabelValues \in DOMAIN ina260Power
    /\ ina260Power[LabelValues] = 1000000

\* C22: the gauges of a successful iteration are written one at a time, in
\* the order current, voltage, power.  With k(g) the index, among the
\* successful iterations, of the one that last wrote gauge g (0 before any),
\* and lag[g] the distance of k(g) from the index of the latest successful
\* iteration: in every state k(current) >= k(voltage) >= k(power) and
\* k(current) - k(power) <= 1, and during a delay of the loop the three are
\* equal; a step writes at most one gauge, and the gauge it writes is then of
\* the latest iteration.
C22_GaugeWriteOrder ==
    /\ [](/\ lag[1] <= lag[2] /\ lag[2] <= lag[3]
          /\ lag[3] - lag[1] <= 1
          /\ lag[3] < MaxLag
          /\ pc \in SleepPcs => lag[1] = lag[2] /\ lag[2] = lag[3])
    /\ [][/\ Cardinality({g \in 1..3 : Gauges[g]' # Gauges[g]}) <= 1
          /\ \A g \in 1..3 : Gauges[g]' # Gauges[g] =>
                /\ lag'[g] = 0
                /\ \A h \in 1..3 : h < g => lag[h] = 0
                /\ \A h \in 1..3 : h >= g => lag[h] = 1]_vars

C22_Witness ==
    /\ pc = "set_power"
    /\ lag = <<0, 0, 1>>
    /\ http = "serving"
    /\ scraped = Gauges
    /\ LabelValues \in DOMAIN iterStart[1]
    /\ ina260Current # iterStart[1]
    /\ ina260Voltage # iterStart[2]
    /\ ina260Power = iterStart[3]

\* the run of a positional variant has taken its two configuration strings
ArgsTaken ==
    /\ variant \in {"main", "labeled"}
    /\ pc \notin {"host_init", "bus_open", "hostname", "args"}
    /\ fatalMsg \notin {"host_init", "bus_open", "hostname"}

\* C23: the positional variants take address and channel from the command
\* line only when at least two arguments are given (the first two, any
\* further one ignored); with no argument or exactly one, both values are the
\* defaults "0x70" and "0": the configuration is then never rejected and the
\* channel-select write goes to address 0x70 with the byte 0x01, whatever the
\* single argument was.
C23_DefaultsBelowTwoArgs ==
    ArgsTaken =>
        /\ Len(osArgs) < 2 =>
             /\ tcaAddressStr = <<"0","x","7","0">>
             /\ channelStr = <<"0">>
             /\ fatalMsg \notin ConfigErrors
             /\ pc \notin {"parse_addr", "parse_channel"} =>
                  tcaAddress = 112 /\ ina260Channel = 0
             /\ setupTx # <<>> =>
                  /\ setupTx[1].addr = 112
                  /\ setupTx[1].w = <<1>>
                  /\ setupTx[1].rlen = 0
        /\ Len(osArgs) >= 2 =>
             /\ tcaAddressStr = osArgs[1]
             /\ channelStr = osArgs[2]
             /\ (osArgs[1] = <<"0","x","7","1">> /\ osArgs[2] = <<"3">>
                   /\ setupTx # <<>>) =>
                  setupTx[1].addr = 113 /\ setupTx[1].w = <<8>>

C23_Witness ==
    /\ variant = "main"
    /\ osArgs = << <<"0","x","7","1">> >>
    /\ pc = "read_current"
    /\ http = "serving"
    /\ tcaAddress = 112
    /\ setupTx[1] = Tx(112, <<1>>, 0, TRUE, <<>>)

====
